---- MODULE Spec2Model ----
(***************************************************************************)
(* Model of mandelbrot_set (mandelbrotset.py): one call of the function,   *)
(* from its arguments to the returned grid of escape times.                *)
(*                                                                         *)
(* Numbers.  The arrays r1, r2, c and z hold IEEE-754 binary64 values.     *)
(* The model keeps the rounding and reduces the width: a value is an       *)
(* integer count of quanta of size 2^-FracBits, and every operation that   *)
(* rounds in binary64 (division, multiplication, the magnitude) rounds to  *)
(* the nearest quantum, ties to even.  Addition and subtraction of quanta  *)
(* are exact, as they are for binary64 values of this size and spacing.    *)
(* A complex value is a record [re, im] of two such numbers.               *)
(***************************************************************************)
EXTENDS Integers, Sequences, FiniteSets, TLC

\* ---- bounds of the model --------------------------------------------------
FracBits == 4
MaxRe == 3
MaxIm == 1
MaxWidth == 2
MaxHeight == 4
MaxIter == 3

\* the coordinates a region's bounds are drawn from, in whole units
ReRange == (1 - MaxRe)..MaxRe
ImRange == (-MaxIm)..MaxIm

\* ---- fixed-point stand-in for binary64 -------------------------------------
One == 2^FracBits

FromInt(n) == n * One

\* n / d rounded to the nearest integer, ties to even (d > 0)
RoundDiv(n, d) ==
    LET q == n \div d
        r == n % d
    IN  IF 2 * r > d \/ (2 * r = d /\ q % 2 = 1) THEN q + 1 ELSE q

FMul(a, b) == RoundDiv(a * b, One)

FDiv(a, b) == RoundDiv(a * One, b)

Complex(a, b) == [re |-> a, im |-> b]

CZero == Complex(0, 0)

CAdd(u, v) == Complex(u.re + v.re, u.im + v.im)

\* z**2 on a complex array is np.square: (a*a - b*b) + (a*b + b*a)i
CSquare(u) ==
    Complex(FMul(u.re, u.re) - FMul(u.im, u.im),
            FMul(u.re, u.im) + FMul(u.im, u.re))

\* the threshold of line 24
EscapeRadius == 2

\* np.abs(u) > r for r a whole number.  np.abs is hypot(re, im) rounded to
\* the nearest representable value h, so h > r exactly when the unrounded
\* magnitude exceeds r by more than half a quantum:
\*     sqrt(re^2 + im^2) > r*One + 1/2   <=>   4*(re^2+im^2) > (2*r*One + 1)^2
AbsGreater(u, r) ==
    4 * (u.re * u.re + u.im * u.im) > (2 * FromInt(r) + 1) * (2 * FromInt(r) + 1)

\* ---- np.linspace(start, stop, num), endpoint=True ---------------------------
\* num < 0 raises ValueError (see LinspaceRaises); num = 0 is the empty array;
\* num = 1 is [start]; otherwise step = delta/div, y = arange(num)*step + start
\* (y = arange(num)/div*delta + start when step rounds to 0), y[-1] = stop.
Linspace(start, stop, num) ==
    IF num <= 0 THEN << >>
    ELSE IF num = 1 THEN << start >>
    ELSE LET div   == num - 1
             delta == stop - start
             step  == FDiv(delta, FromInt(div))
         IN  [k \in 1..num |->
                IF k = num THEN stop
                ELSE IF step = 0
                     THEN FMul(FDiv(FromInt(k - 1), FromInt(div)), delta) + start
                     ELSE FMul(FromInt(k - 1), step) + start]

VARIABLES xmin, xmax, ymin, ymax, width, height, max_iter,
          c, z, div_time, mask, i, pc, result,
          iters, writes, broke

args == <<xmin, xmax, ymin, ymax, width, height, max_iter>>
vars == <<xmin, xmax, ymin, ymax, width, height, max_iter,
          c, z, div_time, mask, i, pc, result, iters, writes, broke>>

\* index set of an array of shape (h, w): (row, column), 0-based
Cells(h, w) == (0..(h - 1)) \X (0..(w - 1))

\* lines 6-9: c = r1 + r2[:,None] * 1j, shape (height, width)
SampleGrid(x0, x1, y0, y1, w, h) ==
    LET r1 == Linspace(x0, x1, w)
        r2 == Linspace(y0, y1, h)
    IN  [cell \in Cells(h, w) |-> Complex(r1[cell[2] + 1], r2[cell[1] + 1])]

\* line 12: z = np.zeros_like(c)
InitZ(cc) == [cell \in DOMAIN cc |-> CZero]

\* variant of InitDivTime: a "not yet escaped" sentinel of -1 instead of zeros
InitDivTimeSentinel(cc) == [cell \in DOMAIN cc |-> -1]

\* line 13: div_time = np.zeros(z.shape, dtype=int)
InitDivTime(cc) == [cell \in DOMAIN cc |-> 0]

\* line 18: mask = np.full(c.shape, True, dtype=bool)
InitMask(cc) == [cell \in DOMAIN cc |-> TRUE]

\* variant of UpdateZ: the update without the mask, z = z**2 + c
UpdateZUnmasked(zz, mm, cc) ==
    [cell \in DOMAIN zz |-> CAdd(CSquare(zz[cell]), cc[cell])]

\* line 21: z[mask] = z[mask]**2 + c[mask]
UpdateZ(zz, mm, cc) ==
    [cell \in DOMAIN zz |->
        IF mm[cell] THEN CAdd(CSquare(zz[cell]), cc[cell]) ELSE zz[cell]]

\* line 24: np.greater(np.abs(z), 2.0, out=np.full(c.shape, False), where=mask)
Diverged(zz, mm) ==
    [cell \in DOMAIN zz |->
        IF mm[cell] THEN AbsGreater(zz[cell], EscapeRadius) ELSE FALSE]

\* variant of RecordDivTime: the count of updates done, i + 1, is recorded
RecordDivTimeNext(dt, dv, k) ==
    [cell \in DOMAIN dt |-> IF dv[cell] THEN k + 1 ELSE dt[cell]]

\* line 27: div_time[diverged] = i
RecordDivTime(dt, dv, k) ==
    [cell \in DOMAIN dt |-> IF dv[cell] THEN k ELSE dt[cell]]

\* variant of ClearMask: mask[diverged.any()] = False, a scalar boolean index,
\* which clears every entry as soon as one cell has diverged
ClearMaskAny(mm, dv) ==
    [cell \in DOMAIN mm |->
        IF \E other \in DOMAIN dv : dv[other] THEN FALSE ELSE mm[cell]]

\* line 30: mask[diverged] = False
ClearMask(mm, dv) ==
    [cell \in DOMAIN mm |-> IF dv[cell] THEN FALSE ELSE mm[cell]]

\* variant of BreakCond: not mask.all()
BreakCondAll(mm) == ~ \A cell \in DOMAIN mm : mm[cell]

\* line 33: not mask.any()
BreakCond(mm) == ~ \E cell \in DOMAIN mm : mm[cell]

\* variant of InRange: range(max_iter + 1)
InRangeInclusive(k, n) == k <= n

\* line 20: the iterator of range(max_iter) still has the index k to give
InRange(k, n) == k < n

\* lines 21-30: the body of the loop for index k, on the working arrays
LoopBody(cc, st, k) ==
    LET z1 == UpdateZ(st.z, st.mask, cc)
        dv == Diverged(z1, st.mask)
    IN  [z        |-> z1,
         div_time |-> RecordDivTime(st.div_time, dv, k),
         mask     |-> ClearMask(st.mask, dv)]

\* lines 12-18: the working arrays before the loop
InitArrays(cc) ==
    [z |-> InitZ(cc), div_time |-> InitDivTime(cc), mask |-> InitMask(cc)]

\* The working arrays are stored values: f @@ f equals f, and evaluates the
\* array once here instead of at every later read of one of its elements.
Stored(st) ==
    [z        |-> st.z @@ st.z,
     div_time |-> st.div_time @@ st.div_time,
     mask     |-> st.mask @@ st.mask]

\* lines 20-33 as a function: the loop from index k on, with its break
RECURSIVE RunLoop(_, _, _, _)
RunLoop(cc, st, k, n) ==
    IF ~ InRange(k, n) THEN st
    ELSE LET s1 == Stored(LoopBody(cc, st, k))
         IN  IF BreakCond(s1.mask) THEN s1 ELSE RunLoop(cc, s1, k + 1, n)

\* lines 12-35 as a function of the sample grid and the iteration bound
MandelbrotArrays(cc, n) == RunLoop(cc, Stored(InitArrays(cc)), 0, n)

Init ==
    /\ xmin \in ReRange /\ xmax \in ReRange
    /\ ymin \in ImRange /\ ymax \in ImRange
    /\ width \in (-1)..MaxWidth /\ height \in (-1)..MaxHeight
    /\ max_iter \in 0..MaxIter
    /\ c = << >> /\ z = << >> /\ div_time = << >> /\ mask = << >>
    /\ i = 0 /\ pc = "start" /\ result = << >>
    /\ iters = 0 /\ writes = << >> /\ broke = FALSE

\* lines 6-7 with a negative sample count: np.linspace raises ValueError
LinspaceRaises ==
    /\ pc = "start"
    /\ (width < 0 \/ height < 0)
    /\ pc' = "raised"
    /\ UNCHANGED <<args, c, z, div_time, mask, i, result, iters, writes, broke>>

\* lines 6-18
Setup ==
    /\ pc = "start"
    /\ width >= 0 /\ height >= 0
    /\ c' = SampleGrid(FromInt(xmin), FromInt(xmax), FromInt(ymin), FromInt(ymax),
                       width, height)
    /\ z' = InitZ(c')
    /\ div_time' = InitDivTime(c')
    /\ mask' = InitMask(c')
    /\ writes' = [cell \in DOMAIN c' |-> 0]
    /\ i' = 0
    /\ pc' = "loop"
    /\ UNCHANGED <<args, result, iters, broke>>

\* lines 20-33: one iteration of the loop, the break included
Iterate ==
    /\ pc = "loop"
    /\ InRange(i, max_iter)
    /\ LET st == LoopBody(c, [z |-> z, div_time |-> div_time, mask |-> mask], i)
           dv == Diverged(st.z, mask)
       IN  /\ z' = st.z
           /\ div_time' = st.div_time
           /\ mask' = st.mask
           /\ writes' = [cell \in DOMAIN writes |->
                            IF dv[cell] THEN writes[cell] + 1 ELSE writes[cell]]
           /\ iters' = iters + 1
           /\ IF BreakCond(st.mask)
              THEN /\ pc' = "return" /\ broke' = TRUE /\ i' = i
              ELSE /\ pc' = "loop" /\ broke' = FALSE /\ i' = i + 1
    /\ UNCHANGED <<args, c, result>>

\* line 20: range(max_iter) is exhausted
LoopExhausted ==
    /\ pc = "loop"
    /\ ~ InRange(i, max_iter)
    /\ pc' = "return"
    /\ UNCHANGED <<args, c, z, div_time, mask, i, result, iters, writes, broke>>

\* line 35
Return ==
    /\ pc = "return"
    /\ result' = div_time
    /\ pc' = "done"
    /\ UNCHANGED <<args, c, z, div_time, mask, i, iters, writes, broke>>

Next == LinspaceRaises \/ Setup \/ Iterate \/ LoopExhausted \/ Return

Spec == Init /\ [][Next]_vars

\* The calls of the termination check: the region's lower-left corner is held
\* at the corner of the coordinate range, everything else is drawn as in Init.
FairInit == Init /\ xmin = 1 - MaxRe /\ ymin = -MaxIm

\* the loop is sequential code: a step that can be taken is taken
FairSpec == FairInit /\ [][Next]_vars /\ WF_vars(Next)

\* ---- terms of the claims ----------------------------------------------------

\* the inputs the specification calls valid
ValidInput ==
    /\ xmin < xmax /\ ymin < ymax
    /\ width >= 1 /\ height >= 1
    /\ max_iter >= 1

\* The orbit of one sample cc on its own: the 0-based index of the first
\* update z <- z*z + cc after which |z| > 2, among n updates; -1 when none.
RECURSIVE EscapeFrom(_, _, _, _)
EscapeFrom(zz, cc, k, n) ==
    IF k >= n THEN -1
    ELSE LET z1 == CAdd(CSquare(zz), cc)
         IN  IF AbsGreater(z1, EscapeRadius) THEN k
             ELSE EscapeFrom(z1, cc, k + 1, n)

FirstEscape(cc, n) == EscapeFrom(CZero, cc, 0, n)

\* C1: for valid inputs, every cell whose orbit never exceeds magnitude 2 in
\* the max_iter updates has the value max_iter in the returned grid (so the
\* sample 0+0i yields max_iter).
C1_SaturatedReportsMaxIter ==
    (pc = "done" /\ ValidInput) =>
        \A cell \in DOMAIN result :
            FirstEscape(c[cell], max_iter) = -1 => result[cell] = max_iter

\* C2: once a cell's mask is false it stays false, and the cell's z and
\* div_time are the same in every later state; div_time of a cell is written
\* at most once.
C2_FreezeAfterEscape ==
    /\ [][\A cell \in DOMAIN mask :
            ~ mask[cell] => /\ ~ mask'[cell]
                            /\ z'[cell] = z[cell]
                            /\ div_time'[cell] = div_time[cell]]_vars
    /\ [](\A cell \in DOMAIN writes : writes[cell] <= 1)

\* a cell escaped at index 0 has been carried through a second iteration
\* that another, still active, cell took part in
C2_Witness ==
    /\ iters >= 2
    /\ \E cell \in DOMAIN mask : ~ mask[cell] /\ div_time[cell] = 0 /\ writes[cell] = 1
    /\ \E cell \in DOMAIN mask : mask[cell]

\* C3: for valid inputs every cell of div_time, in every state of the loop
\* and in the returned grid, is an integer in 0..max_iter.
C3_ValuesInRange ==
    ValidInput =>
        /\ \A cell \in DOMAIN div_time : div_time[cell] \in 0..max_iter
        /\ pc = "done" => \A cell \in DOMAIN result : result[cell] \in 0..max_iter

\* a returned grid holding the largest index the loop can record
C3_Witness ==
    /\ pc = "done" /\ ValidInput /\ max_iter >= 3
    /\ \E cell \in DOMAIN result : result[cell] = max_iter - 1
    /\ \E cell \in DOMAIN result : result[cell] = 0

\* C4: with an invalid region, resolution or iteration bound the call ends in
\* an error: no iteration is executed and no grid is returned.
C4_ValidationPrecedesComputation ==
    (width <= 0 \/ height <= 0 \/ xmin >= xmax \/ ymin >= ymax \/ max_iter <= 0) =>
        /\ iters = 0
        /\ pc \notin {"return", "done"}

\* C5: a cell is inactive exactly when its own orbit exceeds magnitude 2
\* within the updates done, and its recorded value is the 0-based index of
\* the first update after which |z| > 2; the sample 3+0i is recorded as 0.
C5_EscapeIndexConvention ==
    /\ \A cell \in DOMAIN mask :
          ~ mask[cell] => div_time[cell] = FirstEscape(c[cell], max_iter)
    /\ pc = "done" =>
          \A cell \in DOMAIN result :
              /\ FirstEscape(c[cell], max_iter) # -1 =>
                     ~ mask[cell] /\ result[cell] = FirstEscape(c[cell], max_iter)
              /\ c[cell] = Complex(FromInt(3), 0) /\ max_iter >= 1 => result[cell] = 0

\* a returned grid with the sample 3+0i recorded as 0 and the sample 1+0i,
\* whose orbit 1, 2, 5 first exceeds 2 at the third update, recorded as 2
C5_Witness ==
    /\ pc = "done"
    /\ \E cell \in DOMAIN result :
          c[cell] = Complex(FromInt(3), 0) /\ result[cell] = 0
    /\ \E cell \in DOMAIN result :
          c[cell] = Complex(FromInt(1), 0) /\ result[cell] = 2 /\ ~ mask[cell]

\* lines 20-30 without line 33: every index of range(n) gets its iteration
RECURSIVE RunAll(_, _, _, _)
RunAll(cc, st, k, n) ==
    IF k >= n THEN st ELSE RunAll(cc, Stored(LoopBody(cc, st, k)), k + 1, n)

\* one sample evaluated on its own, as a grid of a single cell, to its own
\* completion within n iterations
PointComplete(cc, n) ==
    LET g == [cell \in {<<0, 0>>} |-> cc]
        s == MandelbrotArrays(g, n)
    IN  [z |-> s.z[<<0, 0>>], div_time |-> s.div_time[<<0, 0>>],
         mask |-> s.mask[<<0, 0>>]]

CellState(cell) ==
    [z |-> z[cell], div_time |-> div_time[cell], mask |-> mask[cell]]

\* C6: for a valid call with bound max_iter and any larger bound m on the
\* same grid, (a) a cell that escaped keeps its recorded value under m and
\* (b) a cell that saturated has a value >= max_iter under m.
C6_MonotoneUnderRefinement ==
    (pc = "done" /\ ValidInput) =>
        \A m \in (max_iter + 1)..MaxIter :
            LET new == MandelbrotArrays(c, m).div_time
            IN  \A cell \in DOMAIN result :
                    /\ ~ mask[cell] => new[cell] = result[cell]
                    /\ mask[cell] => new[cell] >= max_iter

\* C7: the returned grid equals the grid of the loop run for all max_iter
\* iterations without the break, and when the loop breaks every cell is
\* inactive and has had its value recorded.
C7_EarlyExitNeutral ==
    /\ pc = "done" => result = RunAll(c, InitArrays(c), 0, max_iter).div_time
    /\ broke => \A cell \in DOMAIN mask : ~ mask[cell] /\ writes[cell] = 1

\* the loop broke after its second iteration with a third one left to run
C7_Witness ==
    /\ pc = "done" /\ broke
    /\ iters = 2 /\ max_iter = 3
    /\ \E cell \in DOMAIN result : result[cell] = 1
    /\ \E cell \in DOMAIN result : result[cell] = 0

\* C8: for a region with ymin = -ymax the returned grid has equal values at
\* the cell in row r, column col and at the cell in row height-1-r, column col.
C8_ConjugationSymmetry ==
    (pc = "done" /\ ValidInput /\ ymin = -ymax) =>
        \A cell \in DOMAIN result :
            result[cell] = result[<<height - 1 - cell[1], cell[2]>>]

\* C9: the returned grid holds for each cell the value of that cell evaluated
\* on its own to completion, and at return each cell's z, mask and div_time
\* are those of the cell evaluated on its own: nothing in them comes from
\* another cell.
C9_SchedulingIndependence ==
    pc = "done" =>
        \A cell \in DOMAIN result :
            LET own == PointComplete(c[cell], max_iter)
            IN  /\ result[cell] = own.div_time
                /\ CellState(cell) = own

\* a returned grid with a cell that escaped at index 0, one that escaped
\* later and one that never did
C9_Witness ==
    /\ pc = "done"
    /\ \E a, b, d \in DOMAIN result :
          /\ mask[a]
          /\ ~ mask[b] /\ result[b] = 0
          /\ ~ mask[d] /\ result[d] >= 1

C10_Pre == width >= 0 /\ height >= 0 /\ max_iter >= 1

C10_Escaped(cell) ==
    ~ mask[cell] /\ writes[cell] = 1 /\ result[cell] \in 0..(max_iter - 1)

C10_Saturated(cell) ==
    mask[cell] /\ writes[cell] = 0 /\ iters = max_iter

\* C10: for a grid that exists and max_iter >= 1 the loop runs at most
\* max_iter iterations and the call returns; the loop is left either with no
\* cell active or with all max_iter iterations done, and at return every cell
\* is either escaped at one index of 0..max_iter-1 or saturated, never both.
C10_Termination ==
    /\ [](C10_Pre =>
            /\ iters <= max_iter
            /\ pc \in {"return", "done"} =>
                  (\A cell \in DOMAIN mask : ~ mask[cell]) \/ iters = max_iter
            /\ pc = "done" =>
                  \A cell \in DOMAIN result :
                      /\ C10_Escaped(cell) \/ C10_Saturated(cell)
                      /\ ~ (C10_Escaped(cell) /\ C10_Saturated(cell)))
    /\ [](C10_Pre => <>(pc = "done"))

\* a call returned after all max_iter iterations with escaped and saturated cells
C10_Witness ==
    /\ pc = "done" /\ C10_Pre
    /\ iters = max_iter /\ max_iter >= 2 /\ ~ broke
    /\ \E cell \in DOMAIN result : C10_Escaped(cell)
    /\ \E cell \in DOMAIN result : C10_Saturated(cell)
====
